---- MODULE Spec2Model ----
(***************************************************************************)
(* A model of the ray-based text locator recognize_text                    *)
(* (src/recognize-text.js, lines 213-586).                                 *)
(*                                                                         *)
(* One call of recognize_text is a deterministic pipeline; the model runs  *)
(* it as a state machine whose program counter pc walks through the loops  *)
(* of the function, one loop iteration per step.  The inputs of the call   *)
(* (image size, pixel data, options) are chosen in Init.                   *)
(*                                                                         *)
(* Numbers.  The code computes in IEEE doubles; the model computes in      *)
(* exact integers where the code's value is a rational with a small        *)
(* denominator, and in fixed point elsewhere:                              *)
(*   - a luminosity is an integer count of 1/LumDen (exact);               *)
(*   - a deviation from a ray's mean and a segment value are integer       *)
(*     counts of 1/(LumDen * ray_steps) (exact);                           *)
(*   - a ray magnitude is an even count of 1/SCALE, each moment            *)
(*     value/length truncated to a multiple of 2/SCALE;                    *)
(*   - the seven raw classification scores are counts of 1/SCALE (exact,   *)
(*     given the magnitudes);                                              *)
(*   - the classification distance is the square root rounded up and the   *)
(*     normalized scores are quotients truncated toward zero, in 1/SCALE;  *)
(*   - confidences are exact fractions of such counts; a zero denominator  *)
(*     encodes the doubles Infinity, -Infinity and NaN.                    *)
(* A luminosity read from an index outside the data array is undefined in  *)
(* JavaScript and turns into NaN, written NaN below.                       *)
(***************************************************************************)
EXTENDS Integers, Sequences, FiniteSets, TLC

\* ------------------------------------------------------------------ bounds
\* Largest image width and height the inputs are drawn from.
MaxW == 12
MaxH == 10
\* Number of calls made one after the other on the same input.
MaxCalls == 2

\* ------------------------------------------------------- number encodings
\* Fixed-point unit of magnitudes, scores, biases and thresholds.
SCALE == 2 * 1000
\* Denominator of a luminosity: r_bias = 0.2126 / 768.0 = 2126 / LumDen.
LumDen == 768 * 10000
\* The double NaN, for values that are otherwise never negative.
NaN == 0 - 1
\* An absent (undefined) neighbor link, row or point.
Undefined == 0

Abs(v) == IF v < 0 THEN 0 - v ELSE v
Max2(a, b) == IF a >= b THEN a ELSE b
\* Quotient truncated toward zero, for b > 0.
TruncDiv(a, b) == IF a >= 0 THEN a \div b ELSE 0 - ((0 - a) \div b)

RECURSIVE SqrtSearch(_, _, _)
SqrtSearch(s, lo, hi) ==
  \* least r in lo..hi with r * r >= s, by bisection
  IF lo >= hi THEN lo
  ELSE LET mid == (lo + hi) \div 2
       IN IF mid * mid >= s THEN SqrtSearch(s, lo, mid)
          ELSE SqrtSearch(s, mid + 1, hi)
\* Math.sqrt, rounded up to the next integer count.
CeilSqrt(s) == SqrtSearch(s, 0, 46340)

RECURSIVE SumSeq(_)
SumSeq(s) == IF s = <<>> THEN 0 ELSE Head(s) + SumSeq(Tail(s))

\* ------------------------------------------------------------------ inputs
\* The pixel data of an image: test patterns, each a function of (x, y)
\* giving the bytes R, G, B of the pixel (the alpha byte is never read).
Patterns == {"uniform", "solid", "hstripe", "colour", "noise3", "noise5"}

Grey(v) == <<v, v, v>>

PixelRGB(pat, x, y) ==
  CASE pat = "uniform" -> Grey(128)
    [] pat = "solid"   -> <<200, 30, 90>>
    [] pat = "hstripe" -> Grey(255 * (y % 2))
    [] pat = "colour"  -> <<(31 * x * x + 17 * y * y + 7 * x * y) % 256,
                            (13 * x + 101 * y * y + 3 * x * y) % 256,
                            (57 * x * x + 29 * y) % 256>>
    [] pat = "noise3"  ->
         Grey((255 * ((x * x + 2 * x * y + 7 * x + 3 * y) % 3)) \div 2)
    [] pat = "noise5"  ->
         Grey((255 * ((4 * x * x + y * y + 2 * x * y + 6 * x + 7 * y) % 5))
              \div 4)

\* An options object.  A field that is 0 is falsy, like an absent one.
\* Spacings, ray_steps, ray_interval and ray_aspect are integers; the
\* biases and thresholds are counts of 1/SCALE.
NoOptions ==
  [horizontal_spacing |-> 0, vertical_spacing |-> 0, ray_interval |-> 0,
   ray_steps |-> 0, ray_aspect |-> 0, interior_bias |-> 0,
   left_edge_bias |-> 0, right_edge_bias |-> 0, minimum_interior |-> 0,
   minimum_confidence |-> 0]

OptionSets ==
  { NoOptions,
    [NoOptions EXCEPT !.horizontal_spacing = 1, !.vertical_spacing = 1,
                      !.ray_steps = 3],
    [NoOptions EXCEPT !.horizontal_spacing = 1, !.vertical_spacing = 1,
                      !.ray_steps = 3, !.minimum_interior = SCALE \div 5,
                      !.minimum_confidence = 4 * SCALE,
                      !.left_edge_bias = SCALE \div 20],
    [NoOptions EXCEPT !.horizontal_spacing = 2, !.vertical_spacing = 2,
                      !.ray_steps = 2, !.ray_aspect = 1,
                      !.minimum_interior = SCALE \div 10,
                      !.right_edge_bias = SCALE \div 20],
    [NoOptions EXCEPT !.horizontal_spacing = 2, !.vertical_spacing = 2,
                      !.ray_steps = 2, !.ray_aspect = 1,
                      !.minimum_interior = 0 - SCALE \div 10,
                      !.minimum_confidence = 0 - SCALE,
                      !.left_edge_bias = SCALE \div 20],
    [NoOptions EXCEPT !.horizontal_spacing = 2, !.vertical_spacing = 1,
                      !.ray_steps = 2, !.ray_aspect = 1,
                      !.minimum_interior = SCALE \div 10,
                      !.minimum_confidence = 6 * SCALE] }


Widths == {0} \cup ((MaxW - 3) .. MaxW)
Heights == {0} \cup ((MaxH - 3) .. MaxH)
\* The data array holds width*height*4 bytes in a well-formed image; a
\* malformed one holds half the rows, or 4 bytes where there is no row.
DataLengths(width, height) ==
  {width * height * 4} \cup
  (IF height > 0 /\ width > 0 THEN {width * (height \div 2) * 4} ELSE {4})

\* ------------------------------------------------------------------- state
VARIABLES
  image_data,          \* [width, height, pattern, length]: the ImageData
  options,             \* the options object of the call
  pc,                  \* the loop of recognize_text the call is in
  cfg,                 \* the options cached as locals (lines 229-242)
  points,              \* the array of sample points
  i,                   \* index of the running for loop (1-based)
  rows, columns,       \* the linking pass's buckets: coordinate -> indices
  sorted_by_interior,  \* point indices, by descending interior
  g,                   \* the locals of the rectangle growth loop body
  rectangles,          \* candidates pushed so far; besides the fields of
                       \* the code, seed is the seed's index and computed
                       \* the value of the local confidence at the push
  maximum_confidence,  \* a fraction [n, d] counting 1/SCALE
  survivors,           \* the list being returned
  outcome,             \* "running", "returned" or the exception raised
  reads_outside,       \* coordinates sampled that lie outside the image
  buffer_misses,       \* number of data[] reads that gave undefined
  zero_divisors,       \* the divisions executed with a zero divisor
  all_magnitudes,      \* the global variable all_magnitudes
  before,              \* what the caller could see when the call began
  calls,               \* number of calls that came before the running one
  previous,            \* what the call before this one gave its caller
  pixel_read,          \* the last pixel fetched by a pixel accessor
  scan,                \* the documented detector's result loop: the point,
                       \* the window and the pixel it is reading
  clip                 \* clip_confidences: its list and the pass it is in

vars == <<image_data, options, pc, cfg, points, i, rows, columns,
          sorted_by_interior, g, rectangles, maximum_confidence, survivors,
          outcome, reads_outside, buffer_misses, zero_divisors,
          all_magnitudes, before, calls, previous, pixel_read, scan, clip>>

\* --------------------------------------------------------- option handling
\* options && options.name || default
Opt(o, value, default) == IF value = 0 THEN default ELSE value

ProcessOptions(o) ==
  LET ray_interval == Opt(o, o.ray_interval, 1)
      ray_steps    == Opt(o, o.ray_steps, 6)
      ray_aspect   == Opt(o, o.ray_aspect, 2)
  IN [horizontal_spacing |-> Opt(o, o.horizontal_spacing, 3),
      vertical_spacing   |-> Opt(o, o.vertical_spacing, 3),
      ray_interval       |-> ray_interval,
      ray_steps          |-> ray_steps,
      ray_aspect         |-> ray_aspect,
      ray_length_x       |-> ray_steps * ray_interval * ray_aspect,
      ray_length_y       |-> ray_steps * ray_interval,
      interior_bias      |-> Opt(o, o.interior_bias, SCALE),
      left_edge_bias     |-> Opt(o, o.left_edge_bias, 0),
      right_edge_bias    |-> Opt(o, o.right_edge_bias, 0),
      minimum_interior   |-> Opt(o, o.minimum_interior, SCALE \div 2),
      minimum_confidence |-> Opt(o, o.minimum_confidence, SCALE \div 10)]

\* ------------------------------------------------------------ point grid
\* The values start, start + step, ... below limit (a for loop's range).
RECURSIVE LoopRange(_, _, _)
LoopRange(start, limit, step) ==
  IF start < limit THEN <<start>> \o LoopRange(start + step, limit, step)
  ELSE <<>>

\* A grid whose x loop starts at the image's left edge.
GridStartXAtEdge(c) == 0
\* First x of the grid loop.
GridStartX(c) == c.ray_length_y
\* Bound of the grid loop's x.
GridLimitX(c, w) == w - c.ray_length_x
GridStartY(c) == c.ray_length_y
GridLimitY(c, h) == h - c.ray_length_y

NewPoint(x, y, index) ==
  [x |-> x, y |-> y, index |-> index,
   rays |-> [j \in 1..8 |-> <<>>],
   ray_summaries |-> <<>>,
   classification_distance |-> 0,
   interior |-> 0, left_edge |-> 0, right_edge |-> 0, top_edge |-> 0,
   bottom_edge |-> 0, nw_corner |-> 0, se_corner |-> 0,
   raw |-> <<>>,
   up |-> Undefined, down |-> Undefined,
   left |-> Undefined, right |-> Undefined]

\* The points array after the two nested loops: x outermost.
BuildPoints(c, w, h) ==
  LET xs == LoopRange(GridStartX(c), GridLimitX(c, w), c.horizontal_spacing)
      ys == LoopRange(GridStartY(c), GridLimitY(c, h), c.vertical_spacing)
      ny == Len(ys)
  IN [k \in 1..(Len(xs) * ny) |->
        NewPoint(xs[((k - 1) \div ny) + 1], ys[((k - 1) % ny) + 1], k)]

\* Eight directions, the horizontal component scaled by ray_aspect.
BaseDirections ==
  << <<0, 1>>, <<1, 1>>, <<1, 0>>, <<1, 0 - 1>>,
     <<0, 0 - 1>>, <<0 - 1, 0 - 1>>, <<0 - 1, 0>>, <<0 - 1, 1>> >>
RayDirections(c) ==
  [j \in 1..8 |-> <<BaseDirections[j][1] * c.ray_aspect, BaseDirections[j][2]>>]

\* ------------------------------------------------------------- luminosity
\* y * w + x << 2, where x and y went through >>> 0.  A negative x turns
\* into x + 2^32 under >>> 0 and the shift's 32-bit wrap-around takes the
\* 2^32 away again, so the offset is 4 * (y * w + x) whenever that fits in
\* 32 bits (it does for every image of the model).
PixelOffset(w, x, y) == 4 * (y * w + x)

\* data[offset]: the byte, or NaN for undefined (outside the array).
DataByte(img, offset) ==
  IF offset < 0 \/ offset >= img.length THEN NaN
  ELSE LET q == offset \div 4
       IN PixelRGB(img.pattern, q % img.width, q \div img.width)[(offset % 4) + 1]

\* luminosity(x, y), counting 1/LumDen; NaN when a byte is undefined.
Luminosity(img, x, y) ==
  LET offset == PixelOffset(img.width, x, y)
      r == DataByte(img, offset)
      gr == DataByte(img, offset + 1)
      b == DataByte(img, offset + 2)
  IN IF r = NaN \/ gr = NaN \/ b = NaN THEN NaN
     ELSE r * 2126 + gr * 7152 + b * 722

\* ---------------------------------------------------------- ray analysis
\* The coordinate of sample d (0-based) of ray j from (x, y).
SampleCoord(c, x, y, j, d) ==
  <<x + d * (RayDirections(c)[j][1] * c.ray_interval),
    y + d * (RayDirections(c)[j][2] * c.ray_interval)>>

\* ray[0 .. ray_steps-1], as a sequence.
RaySamples(img, c, x, y, j) ==
  [d \in 1..c.ray_steps |->
     LET xy == SampleCoord(c, x, y, j, d - 1)
     IN Luminosity(img, xy[1], xy[2])]

InImage(img, xy) ==
  xy[1] >= 0 /\ xy[1] < img.width /\ xy[2] >= 0 /\ xy[2] < img.height

\* total, or NaN when one sample is NaN.
RayTotal(ray) ==
  IF \E d \in 1..Len(ray) : ray[d] = NaN THEN NaN ELSE SumSeq(ray)

\* ray[d] - average, counting 1/(LumDen * ray_steps).
Deviation(ray, total, d) == Len(ray) * ray[d] - total

\* subtotal - average >= 0 === ray[d] - average >= 0.  With a NaN average
\* both comparisons are false, hence equal.
SameSide(subtotal, total, dev) ==
  IF total = NaN THEN TRUE
  ELSE (subtotal - total >= 0) = (dev >= 0)

\* subtotal > 0.025
AboveNoiseFloor(value, steps) == value * 40 > LumDen * steps

\* The loop over d = 0 .. ray_steps-1 (d is 1-based here; the recorded
\* position is the code's 0-based d).
RecordOpenRun(segs, subtotal, subdistance, steps) ==
  IF AboveNoiseFloor(Abs(subtotal), steps)
  THEN Append(segs, [value |-> Abs(subtotal), position |-> steps,
                     length |-> subdistance])
  ELSE segs

\* After the last sample the loop ends; the run still open is dropped.
AtEndOfRay(segs, subtotal, subdistance, steps) == segs

RECURSIVE SegmentLoop(_, _, _, _, _, _)
SegmentLoop(ray, total, d, subtotal, subdistance, segs) ==
  IF d > Len(ray) THEN AtEndOfRay(segs, subtotal, subdistance, Len(ray))
  ELSE LET dev == IF total = NaN THEN 0 ELSE Deviation(ray, total, d)
       IN IF d = 1 \/ SameSide(subtotal, total, dev)
          THEN SegmentLoop(ray, total, d + 1, subtotal + dev,
                           subdistance + 1, segs)
          ELSE SegmentLoop(ray, total, d + 1, dev, 1,
                 IF AboveNoiseFloor(Abs(subtotal), Len(ray))
                 THEN Append(segs, [value |-> Abs(subtotal),
                                    position |-> d - 1,
                                    length |-> subdistance])
                 ELSE segs)

Segments(ray) == SegmentLoop(ray, RayTotal(ray), 1, 0, 0, <<>>)

\* p.rays of the point at (x, y).
PointRays(img, c, x, y) ==
  [j \in 1..8 |-> Segments(RaySamples(img, c, x, y, j))]

\* The sampled coordinates of the point that lie outside the image.
OutsideReads(img, c, x, y) ==
  { xy \in { SampleCoord(c, x, y, j, d) : j \in 1..8, d \in 0..(c.ray_steps - 1) } :
      ~InImage(img, xy) }

\* The number of samples of the point that read an undefined byte.
UndefinedReads(img, c, x, y) ==
  Cardinality({ jd \in (1..8) \X (1..c.ray_steps) :
                  RaySamples(img, c, x, y, jd[1])[jd[2]] = NaN })

\* ----------------------------------------------------------- ray summaries
\* moment = r[k].value / r[k].length, an even count of 1/SCALE.
Moment(seg, steps) ==
  2 * (seg.value \div (((2 * LumDen) \div SCALE) * steps * seg.length))

RECURSIVE SumMoments(_, _, _)
\* Sum over the segments of moment (weighted = FALSE) or moment * position.
SumMoments(segs, steps, weighted) ==
  IF segs = <<>> THEN 0
  ELSE (IF weighted THEN Moment(Head(segs), steps) * Head(segs).position
        ELSE Moment(Head(segs), steps))
       + SumMoments(Tail(segs), steps, weighted)

\* distance / magnitude || 0: 0/0 is NaN, which || replaces by 0.
MeanDistance(distance, magnitude) ==
  IF magnitude = 0 THEN 0 ELSE TruncDiv(distance * SCALE, magnitude)

RaySummary(segs, steps) ==
  LET magnitude == SumMoments(segs, steps, FALSE)
      distance  == SumMoments(segs, steps, TRUE)
  IN [magnitude |-> magnitude, distance |-> MeanDistance(distance, magnitude)]

RaySummaries(p, c) == [j \in 1..8 |-> RaySummary(p.rays[j], c.ray_steps)]

\* ---------------------------------------------------------- classification
RECURSIVE SumOver(_, _)
\* Sum of f[j] over the indices in js.
SumOver(f, js) ==
  IF js = {} THEN 0
  ELSE LET j == CHOOSE k \in js : TRUE IN f[j] + SumOver(f, js \ {j})

\* The six accumulators of lines 380-404, from the magnitudes m[1..8].
Accumulators(m, dirs) ==
  LET hz == { j \in 1..8 : dirs[j][2] = 0 }
      vt == { j \in 1..8 : dirs[j][1] = 0 }
      dg == { j \in 1..8 : dirs[j][1] # 0 /\ dirs[j][2] # 0
                           /\ dirs[j][1] + dirs[j][2] # 0 }
  IN [h_bias  |-> SumOver([j \in 1..8 |-> m[j] * dirs[j][1]], hz),
      h_total |-> SumOver([j \in 1..8 |-> m[j] * Abs(dirs[j][1])], hz),
      v_bias  |-> SumOver([j \in 1..8 |-> m[j] * dirs[j][2]], vt),
      v_total |-> SumOver([j \in 1..8 |-> m[j] * Abs(dirs[j][2])], vt),
      d_bias  |-> SumOver([j \in 1..8 |-> m[j] * (dirs[j][1] + dirs[j][2])], dg),
      d_total |-> SumOver([j \in 1..8 |-> m[j] * Abs(dirs[j][1] + dirs[j][2])], dg)]

\* bias + (total * 0.5); total is a sum of even counts.
NormalizedBias(bias, total) == bias + total \div 2

\* The seven raw scores of lines 416-422, counting 1/SCALE, in the
\* order interior, left_edge, right_edge, top_edge, bottom_edge, nw_corner,
\* se_corner.  (h_bias < 0 && -h_bias is false when h_bias >= 0, and false
\* counts as 0 in the arithmetic that follows.)
RawScores(a, interior_bias) ==
  LET normalized_v_bias == NormalizedBias(a.v_bias, a.v_total)
      normalized_d_bias == NormalizedBias(a.d_bias, a.d_total)
  IN << TruncDiv(interior_bias * a.h_total, SCALE) + a.d_total + a.v_total,
        IF a.h_bias < 0 THEN 0 - a.h_bias ELSE 0,
        IF a.h_bias > 0 THEN a.h_bias ELSE 0,
        normalized_v_bias,
        a.v_total - normalized_v_bias,
        normalized_d_bias,
        a.d_total - normalized_d_bias >>

SumOfSquares(raw) == SumSeq([k \in 1..Len(raw) |-> raw[k] * raw[k]])

\* A distance that leaves the last score, se_corner, out of the sum.
ClassificationDistanceSixTerms(raw) ==
  Max2(SCALE, CeilSqrt(SumOfSquares(SubSeq(raw, 1, Len(raw) - 1))))
\* Math.max(1, Math.sqrt(...)), counting 1/SCALE.
ClassificationDistance(raw) == Max2(SCALE, CeilSqrt(SumOfSquares(raw)))

\* value / classification_distance, counting 1/SCALE.
Normalized(value, distance) == TruncDiv(value * SCALE, distance)

\* The point after its iteration of the classification loop.
Classified(p, c) ==
  LET summaries == RaySummaries(p, c)
      raw == RawScores(Accumulators([j \in 1..8 |-> summaries[j].magnitude],
                                    RayDirections(c)),
                       c.interior_bias)
      dist == ClassificationDistance(raw)
  IN [p EXCEPT !.ray_summaries = summaries,
               !.raw = raw,
               !.classification_distance = dist,
               !.interior    = Normalized(raw[1], dist),
               !.left_edge   = Normalized(raw[2], dist),
               !.right_edge  = Normalized(raw[3], dist),
               !.top_edge    = Normalized(raw[4], dist),
               !.bottom_edge = Normalized(raw[5], dist),
               !.nw_corner   = Normalized(raw[6], dist),
               !.se_corner   = Normalized(raw[7], dist)]

\* ------------------------------------------------------ double fractions
\* A confidence is a record [n, d] that stands for the double n/(d*SCALE)
\* when d > 0, for Infinity when d = 0 and n > 0, for -Infinity when d = 0
\* and n < 0, and for NaN when d = 0 and n = 0.
Sign(v) == IF v > 0 THEN 1 ELSE IF v < 0 THEN 0 - 1 ELSE 0
Frac(n, d) ==
  IF d = 0 THEN [n |-> Sign(n), d |-> 0]
  ELSE IF d < 0 THEN [n |-> 0 - n, d |-> 0 - d]
  ELSE [n |-> n, d |-> d]
IsNaN(a) == a.d = 0 /\ a.n = 0
\* a + v, for a count v of 1/SCALE (a is finite wherever the code adds).
FracPlus(a, v) == Frac(a.n + v * a.d, a.d)
\* a / k in doubles, for an integer k: x/0 is an infinity and 0/0 is NaN.
FracOver(a, k) == Frac(a.n, a.d * k)
\* a / b in doubles.
FracDiv(a, b) == Frac(a.n * b.d * SCALE, a.d * b.n)
\* a >= b in doubles: false when either is NaN.
FracGE(a, b) ==
  /\ ~IsNaN(a)
  /\ ~IsNaN(b)
  /\ IF a.d = 0 /\ b.d = 0 THEN a.n >= b.n ELSE a.n * b.d >= b.n * a.d
\* Math.max(a, b): NaN when either is NaN.
MathMax(a, b) ==
  IF IsNaN(a) \/ IsNaN(b) THEN Frac(0, 0)
  ELSE IF FracGE(a, b) THEN a ELSE b

\* ---------------------------------------------------------------- sorting
RECURSIVE InsertByInterior(_, _, _)
\* idx put into the descending sequence s, behind the elements that are
\* not smaller (Array.prototype.sort is stable).
InsertByInterior(pts, s, idx) ==
  IF s = <<>> THEN <<idx>>
  ELSE IF pts[Head(s)].interior >= pts[idx].interior
       THEN <<Head(s)>> \o InsertByInterior(pts, Tail(s), idx)
       ELSE <<idx>> \o s

RECURSIVE SortedPrefix(_, _)
SortedPrefix(pts, k) ==
  IF k = 0 THEN <<>>
  ELSE InsertByInterior(pts, SortedPrefix(pts, k - 1), k)

\* points.slice().sort(function (x, y) {return y.interior - x.interior})
SortByInterior(pts) == SortedPrefix(pts, Len(pts))

\* ------------------------------------------------------------------- Init
NoGrowth ==
  [p |-> Undefined, top_edge |-> Undefined, bottom_edge |-> Undefined,
   top_moment |-> 0, top_total |-> 0, top_distance |-> 0,
   bottom_moment |-> 0, bottom_total |-> 0, bottom_distance |-> 0,
   left_edge |-> Undefined, nw_corner |-> Undefined,
   right_edge |-> Undefined, se_corner |-> Undefined,
   confidence |-> Frac(0, 1), area |-> 0,
   h_iterator |-> Undefined, v_iterator |-> Undefined,
   top_iterator |-> Undefined, bottom_iterator |-> Undefined,
   left_iterator |-> Undefined, right_iterator |-> Undefined]

\* all_magnitudes before any call has assigned it: no such global exists.
NoGlobal == [defined |-> FALSE, entries |-> <<>>]

\* What outlives a call and the caller can look at: the global scope, the
\* ImageData and the options object.
Visible(global, img, opts) ==
  [all_magnitudes |-> global, image_data |-> img, options |-> opts]

\* No call has been made yet.
NoCall == [outcome |-> "none", survivors |-> <<>>]

\* No pixel has been fetched.
NoPixel == [variant |-> "none", x |-> 0, y |-> 0, offset |-> 0]

\* The documented detector's result loop has not started.
NoScan ==
  [stage |-> "none", radius |-> 0, point |-> 0, read |-> 0,
   x |-> 0, y |-> 0, offset |-> 0]

\* clip_confidences has not been called.
NoClip == [stage |-> "none", xs |-> <<>>, k |-> 0, maximum |-> Frac(0, 1)]

\* The input contract: positive size and width*height*4 bytes of data.
WellFormed(img) ==
  img.width > 0 /\ img.height > 0
  /\ img.length = img.width * img.height * 4

Images ==
  UNION { { [width |-> w, height |-> h, pattern |-> pat, length |-> n] :
              n \in DataLengths(w, h), pat \in Patterns } :
          w \in Widths, h \in Heights }

InitCall ==
  /\ image_data \in Images
  /\ options \in OptionSets
  /\ pc = "entry"
  /\ cfg = ProcessOptions(NoOptions)
  /\ points = <<>>
  /\ i = 0
  /\ rows = <<>>
  /\ columns = <<>>
  /\ sorted_by_interior = <<>>
  /\ g = NoGrowth
  /\ rectangles = <<>>
  /\ maximum_confidence = Frac(0, 1)
  /\ survivors = <<>>
  /\ outcome = "running"
  /\ reads_outside = {}
  /\ buffer_misses = 0
  /\ zero_divisors = {}
  /\ all_magnitudes = NoGlobal
  /\ before = Visible(all_magnitudes, image_data, options)
  /\ calls = 0
  /\ previous = NoCall
  /\ pixel_read = NoPixel

\* A call of the ray-based recognize_text: the sliding-window detector
\* is not running.
Init ==
  /\ InitCall
  /\ scan = NoScan
  /\ clip = NoClip

\* ---------------------------------------------------------------- actions
\* Lines 213-276: cache the options, build the point grid.
Entry ==
  /\ pc = "entry"
  /\ cfg' = ProcessOptions(options)
  /\ points' = BuildPoints(cfg', image_data.width, image_data.height)
  /\ i' = 1
  /\ pc' = "rays"
  /\ before' = Visible(all_magnitudes, image_data, options)
  /\ UNCHANGED <<image_data, options, rows, columns, sorted_by_interior, g,
                 rectangles, maximum_confidence, survivors, outcome,
                 reads_outside, buffer_misses, zero_divisors>>
  /\ UNCHANGED <<all_magnitudes, calls, previous, pixel_read, scan, clip>>

\* Lines 277-320: one iteration of the loop that samples a point's rays;
\* after the last one, line 353: all_magnitudes = [].
SampleRays ==
  /\ pc = "rays"
  /\ IF i <= Len(points)
     THEN LET p == points[i]
          IN /\ points' = [points EXCEPT ![i].rays =
                              PointRays(image_data, cfg, p.x, p.y)]
             /\ reads_outside' = reads_outside \cup
                                   OutsideReads(image_data, cfg, p.x, p.y)
             /\ buffer_misses' = buffer_misses +
                                   UndefinedReads(image_data, cfg, p.x, p.y)
             /\ i' = i + 1
             /\ pc' = pc
             /\ UNCHANGED all_magnitudes
     ELSE /\ i' = 1
          /\ pc' = "classify"
          /\ all_magnitudes' = [defined |-> TRUE, entries |-> <<>>]
          /\ UNCHANGED <<points, reads_outside, buffer_misses>>
  /\ UNCHANGED <<image_data, options, cfg, rows, columns, sorted_by_interior,
                 g, rectangles, maximum_confidence, survivors, outcome,
                 zero_divisors>>
  /\ UNCHANGED <<before, calls, previous, pixel_read, scan, clip>>

\* A classification loop that ends one point early.
ClassifyAllButLast(idx, pts) == idx < Len(pts)
\* The test of the classification loop: i < l.
ClassifyMore(idx, pts) == idx <= Len(pts)

\* all_magnitudes.push({x: p.x, y: p.y, i: j, m: magnitude}) for the eight
\* rays of a point.
PushMagnitudes(global, q) ==
  [global EXCEPT !.entries =
     @ \o [j \in 1..8 |-> [x |-> q.x, y |-> q.y, i |-> j - 1,
                            m |-> q.ray_summaries[j].magnitude]]]

\* Lines 354-442: one iteration of the classification loop; after the last
\* one, line 445: rows = [], columns = [].
Classify ==
  /\ pc = "classify"
  /\ IF ClassifyMore(i, points)
     THEN LET q == Classified(points[i], cfg)
          IN /\ points' = [points EXCEPT ![i] = q]
             /\ all_magnitudes' = PushMagnitudes(all_magnitudes, q)
             /\ UNCHANGED <<rows, columns>>
             /\ zero_divisors' =
                  IF \E j \in 1..8 : q.ray_summaries[j].magnitude = 0
                  THEN zero_divisors \cup {"distance / magnitude"}
                  ELSE zero_divisors
             /\ i' = i + 1
             /\ pc' = pc
     ELSE /\ i' = 1
          /\ pc' = "link"
          /\ rows' = <<>>
          /\ columns' = <<>>
          /\ UNCHANGED <<points, zero_divisors, all_magnitudes>>
  /\ UNCHANGED <<image_data, options, cfg, sorted_by_interior,
                 g, rectangles, maximum_confidence, survivors, outcome,
                 reads_outside, buffer_misses>>
  /\ UNCHANGED <<before, calls, previous, pixel_read, scan, clip>>

\* rows[k] || (rows[k] = [])
Bucket(f, k) == IF k \in DOMAIN f THEN f[k] ELSE <<>>

\* The first entry of a bucket instead of the last-but-one.
FirstOfBucket(bucket) ==
  IF Len(bucket) > 1 THEN bucket[1] ELSE Undefined

\* The last-but-one entry of a bucket, when it has more than one entry.
Preceding(bucket) ==
  IF Len(bucket) > 1 THEN bucket[Len(bucket) - 1] ELSE Undefined

\* leftward.right = p; p.left = leftward.
LinkHorizontally(pts, idx, leftward) ==
  IF leftward = Undefined THEN pts
  ELSE [pts EXCEPT ![leftward].right = idx, ![idx].left = leftward]

\* upward.down = p; p.up = upward.
LinkVertically(pts, idx, upward) ==
  IF upward = Undefined THEN pts
  ELSE [pts EXCEPT ![upward].down = idx, ![idx].up = upward]

\* Lines 446-465: one iteration of the linking loop.
Link ==
  /\ pc = "link"
  /\ IF i <= Len(points)
     THEN LET p == points[i]
              column == Append(Bucket(columns, p.x), i)
              row == Append(Bucket(rows, p.y), i)
          IN /\ columns' = (p.x :> column) @@ columns
             /\ rows' = (p.y :> row) @@ rows
             /\ points' = LinkVertically(
                            LinkHorizontally(points, i, Preceding(row)),
                            i, Preceding(column))
             /\ i' = i + 1
             /\ pc' = pc
     ELSE /\ pc' = "sort"
          /\ UNCHANGED <<points, rows, columns, i>>
  /\ UNCHANGED <<image_data, options, cfg, sorted_by_interior, g, rectangles,
                 maximum_confidence, survivors, outcome, reads_outside,
                 buffer_misses, zero_divisors>>
  /\ UNCHANGED <<all_magnitudes, before, calls, previous, pixel_read, scan, clip>>

\* Lines 468-476: sort, and start the growth loop.
Sort ==
  /\ pc = "sort"
  /\ sorted_by_interior' = SortByInterior(points)
  /\ rectangles' = <<>>
  /\ maximum_confidence' = Frac(0, 1)
  /\ i' = 1
  /\ pc' = "seed"
  /\ UNCHANGED <<image_data, options, cfg, points, rows, columns, g,
                 survivors, outcome, reads_outside, buffer_misses,
                 zero_divisors>>
  /\ UNCHANGED <<all_magnitudes, before, calls, previous, pixel_read, scan, clip>>

\* A test of the vertical links only.
HasVerticalLinks(p) == p.up # Undefined /\ p.down # Undefined

\* p.up && p.down && p.left && p.right
HasAllLinks(p) ==
  p.up # Undefined /\ p.down # Undefined /\ p.left # Undefined
  /\ p.right # Undefined

\* The growth loop's test: i < l && sorted_by_interior[i].interior >
\* minimum_interior.
SeedTest(pts, sorted, idx, minimum_interior) ==
  idx <= Len(sorted) /\ pts[sorted[idx]].interior > minimum_interior

\* Reading a property of undefined raises a TypeError, which ends the call.
Throw ==
  /\ pc' = "done"
  /\ outcome' = "TypeError"

\* A survivor list that is not emptied, as if it were a global like
\* all_magnitudes that no statement resets.
KeptSurvivors(stale) == stale
\* var survivors = []
NewSurvivors(stale) == <<>>

\* Lines 477-491: the loop test, the skip of a point without four links,
\* and the start of the vertical walks; when the loop ends, line 578:
\* survivors = [].
Seed ==
  /\ pc = "seed"
  /\ IF SeedTest(points, sorted_by_interior, i, cfg.minimum_interior)
     THEN LET idx == sorted_by_interior[i]
              p == points[idx]
          IN IF ~HasAllLinks(p)
             THEN /\ i' = i + 1
                  /\ UNCHANGED <<pc, g, survivors>>
             ELSE /\ g' = [g EXCEPT !.p = idx,
                                    !.top_edge = p.up,
                                    !.bottom_edge = p.down,
                                    !.top_moment = 0, !.top_total = 0,
                                    !.top_distance = 0]
                  /\ pc' = "top"
                  /\ UNCHANGED <<i, survivors>>
     ELSE /\ pc' = "normalize"
          /\ i' = 1
          /\ survivors' = NewSurvivors(survivors)
          /\ UNCHANGED g
  /\ UNCHANGED <<image_data, options, cfg, points, rows, columns,
                 sorted_by_interior, rectangles, maximum_confidence,
                 outcome,
                 reads_outside, buffer_misses, zero_divisors>>
  /\ UNCHANGED <<all_magnitudes, before, calls, previous, pixel_read, scan, clip>>

\* total + moment / (distance + 1) > total / distance, for distance > 0.
RaisesAverage(total, moment, distance) ==
  total * distance * (distance + 1) + moment * distance
    > total * (distance + 1)

\* A walk condition that does not test the link.
WalkOnUnlinked(link, moment, total, distance) ==
  /\ moment > 0
  /\ (distance = 0 \/ RaisesAverage(total, moment, distance))
\* The walk continues while the link exists, the moment is positive and
\* (distance === 0 || the comparison above).
WalkOn(link, moment, total, distance) ==
  /\ link # Undefined
  /\ moment > 0
  /\ (distance = 0 \/ RaisesAverage(total, moment, distance))

\* Lines 492-503: one evaluation of the upward walk's condition.
TopWalk ==
  /\ pc = "top"
  /\ IF g.top_edge = Undefined
     THEN Throw /\ UNCHANGED g
     ELSE LET e == points[g.top_edge]
              moment == e.interior - e.top_edge
          IN /\ outcome' = outcome
             /\ IF WalkOn(e.up, moment, g.top_total, g.top_distance)
                THEN /\ g' = [g EXCEPT !.top_edge = e.up,
                                       !.top_moment = moment,
                                       !.top_total = g.top_total + moment,
                                       !.top_distance = g.top_distance + 1]
                     /\ pc' = pc
                ELSE /\ g' = [g EXCEPT !.top_moment =
                                         IF e.up = Undefined THEN g.top_moment
                                         ELSE moment,
                                       !.bottom_moment = 0,
                                       !.bottom_total = 0,
                                       !.bottom_distance = 0]
                     /\ pc' = "bottom"
  /\ UNCHANGED <<image_data, options, cfg, points, i, rows, columns,
                 sorted_by_interior, rectangles, maximum_confidence,
                 survivors, reads_outside, buffer_misses, zero_divisors>>
  /\ UNCHANGED <<all_magnitudes, before, calls, previous, pixel_read, scan, clip>>

\* Lines 504-517: one evaluation of the downward walk's condition.
BottomWalk ==
  /\ pc = "bottom"
  /\ IF g.bottom_edge = Undefined
     THEN Throw /\ UNCHANGED g
     ELSE LET e == points[g.bottom_edge]
              moment == e.interior - e.bottom_edge
          IN /\ outcome' = outcome
             /\ IF WalkOn(e.down, moment, g.bottom_total, g.bottom_distance)
                THEN /\ g' = [g EXCEPT !.bottom_edge = e.down,
                                       !.bottom_moment = moment,
                                       !.bottom_total = g.bottom_total + moment,
                                       !.bottom_distance = g.bottom_distance + 1]
                     /\ pc' = pc
                ELSE /\ g' = [g EXCEPT !.bottom_moment =
                                         IF e.down = Undefined
                                         THEN g.bottom_moment ELSE moment,
                                       !.left_edge = g.p,
                                       !.nw_corner = g.top_edge]
                     /\ pc' = "left"
  /\ UNCHANGED <<image_data, options, cfg, points, i, rows, columns,
                 sorted_by_interior, rectangles, maximum_confidence,
                 survivors, reads_outside, buffer_misses, zero_divisors>>
  /\ UNCHANGED <<all_magnitudes, before, calls, previous, pixel_read, scan, clip>>

\* left_edge.interior + nw_corner.top_edge + left_edge_bias >
\* left_edge.left_edge + nw_corner.nw_corner
LeftOn(e, corner, bias) ==
  e.interior + corner.top_edge + bias > e.left_edge + corner.nw_corner

\* right_edge.interior + se_corner.bottom_edge + right_edge_bias >
\* right_edge.right_edge + se_corner.se_corner
RightOn(e, corner, bias) ==
  e.interior + corner.bottom_edge + bias > e.right_edge + corner.se_corner

\* Lines 519-527: one evaluation of the leftward walk's condition.
LeftWalk ==
  /\ pc = "left"
  /\ IF g.left_edge = Undefined
        \/ (points[g.left_edge].left # Undefined /\ g.nw_corner = Undefined)
     THEN Throw /\ UNCHANGED g
     ELSE LET e == points[g.left_edge]
          IN /\ outcome' = outcome
             /\ IF e.left # Undefined
                   /\ LeftOn(e, points[g.nw_corner], cfg.left_edge_bias)
                THEN /\ g' = [g EXCEPT !.left_edge = e.left,
                                       !.nw_corner = points[g.nw_corner].left]
                     /\ pc' = pc
                ELSE /\ g' = [g EXCEPT !.right_edge = g.p,
                                       !.se_corner = g.bottom_edge]
                     /\ pc' = "right"
  /\ UNCHANGED <<image_data, options, cfg, points, i, rows, columns,
                 sorted_by_interior, rectangles, maximum_confidence,
                 survivors, reads_outside, buffer_misses, zero_divisors>>
  /\ UNCHANGED <<all_magnitudes, before, calls, previous, pixel_read, scan, clip>>

\* (se_corner.x - nw_corner.x) * (se_corner.y - nw_corner.y)
Area(nw, se) == (se.x - nw.x) * (se.y - nw.y)

\* Lines 529-539: one evaluation of the rightward walk's condition; on
\* leaving the walk, the start of the confidence sum.
RightWalk ==
  /\ pc = "right"
  /\ IF g.right_edge = Undefined
        \/ (points[g.right_edge].right # Undefined /\ g.se_corner = Undefined)
     THEN Throw /\ UNCHANGED g
     ELSE LET e == points[g.right_edge]
          IN IF e.right # Undefined
                /\ RightOn(e, points[g.se_corner], cfg.right_edge_bias)
             THEN /\ g' = [g EXCEPT !.right_edge = e.right,
                                    !.se_corner = points[g.se_corner].right]
                  /\ UNCHANGED <<pc, outcome>>
             ELSE IF g.se_corner = Undefined \/ g.nw_corner = Undefined
                  THEN Throw /\ UNCHANGED g
                  ELSE /\ g' = [g EXCEPT
                                  !.confidence = Frac(0, 1),
                                  !.area = Area(points[g.nw_corner],
                                                points[g.se_corner]),
                                  !.h_iterator = points[g.nw_corner].right]
                       /\ pc' = "h_loop"
                       /\ outcome' = outcome
  /\ UNCHANGED <<image_data, options, cfg, points, i, rows, columns,
                 sorted_by_interior, rectangles, maximum_confidence,
                 survivors, reads_outside, buffer_misses, zero_divisors>>
  /\ UNCHANGED <<all_magnitudes, before, calls, previous, pixel_read, scan, clip>>

\* Lines 539-541 and 547-548: the test of the loop over h_iterator.
HLoop ==
  /\ pc = "h_loop"
  /\ IF g.h_iterator = Undefined
     THEN Throw /\ UNCHANGED g
     ELSE /\ outcome' = outcome
          /\ IF points[g.h_iterator].x < points[g.se_corner].x
             THEN /\ g' = [g EXCEPT !.v_iterator = points[g.h_iterator].down]
                  /\ pc' = "v_loop"
             ELSE /\ g' = [g EXCEPT
                             !.top_iterator = points[g.nw_corner].right,
                             !.bottom_iterator = points[g.se_corner].left]
                  /\ pc' = "tb_loop"
  /\ UNCHANGED <<image_data, options, cfg, points, i, rows, columns,
                 sorted_by_interior, rectangles, maximum_confidence,
                 survivors, reads_outside, buffer_misses, zero_divisors>>
  /\ UNCHANGED <<all_magnitudes, before, calls, previous, pixel_read, scan, clip>>

\* Lines 542-545: one evaluation of the test of the loop over v_iterator.
VLoop ==
  /\ pc = "v_loop"
  /\ IF g.v_iterator = Undefined
     THEN Throw /\ UNCHANGED g
     ELSE /\ outcome' = outcome
          /\ IF points[g.v_iterator].y < points[g.se_corner].y
             THEN /\ g' = [g EXCEPT
                             !.confidence = FracPlus(g.confidence,
                                              points[g.v_iterator].interior),
                             !.v_iterator = points[g.v_iterator].down]
                  /\ pc' = pc
             ELSE /\ g' = [g EXCEPT !.h_iterator = points[g.h_iterator].right]
                  /\ pc' = "h_loop"
  /\ UNCHANGED <<image_data, options, cfg, points, i, rows, columns,
                 sorted_by_interior, rectangles, maximum_confidence,
                 survivors, reads_outside, buffer_misses, zero_divisors>>
  /\ UNCHANGED <<all_magnitudes, before, calls, previous, pixel_read, scan, clip>>

\* Lines 547-555: one evaluation of the test of the top/bottom border loop.
TopBottomLoop ==
  /\ pc = "tb_loop"
  /\ IF g.top_iterator = Undefined
     THEN Throw /\ UNCHANGED g
     ELSE IF points[g.top_iterator].x < points[g.se_corner].x
          THEN IF g.bottom_iterator = Undefined
               THEN Throw /\ UNCHANGED g
               ELSE /\ g' = [g EXCEPT
                               !.confidence = FracPlus(g.confidence,
                                  points[g.top_iterator].top_edge
                                  + points[g.bottom_iterator].bottom_edge),
                               !.top_iterator = points[g.top_iterator].right,
                               !.bottom_iterator =
                                  points[g.bottom_iterator].left]
                    /\ UNCHANGED <<pc, outcome>>
          ELSE /\ g' = [g EXCEPT
                          !.left_iterator = points[g.nw_corner].down,
                          !.right_iterator = points[g.se_corner].up]
               /\ pc' = "lr_loop"
               /\ outcome' = outcome
  /\ UNCHANGED <<image_data, options, cfg, points, i, rows, columns,
                 sorted_by_interior, rectangles, maximum_confidence,
                 survivors, reads_outside, buffer_misses, zero_divisors>>
  /\ UNCHANGED <<all_magnitudes, before, calls, previous, pixel_read, scan, clip>>

\* Lines 554-559: one evaluation of the test of the left/right border loop.
LeftRightLoop ==
  /\ pc = "lr_loop"
  /\ IF g.left_iterator = Undefined
     THEN Throw /\ UNCHANGED g
     ELSE IF points[g.left_iterator].y < points[g.se_corner].y
          THEN IF g.right_iterator = Undefined
               THEN Throw /\ UNCHANGED g
               ELSE /\ g' = [g EXCEPT
                               !.confidence = FracPlus(g.confidence,
                                  points[g.left_iterator].left_edge
                                  + points[g.right_iterator].right_edge),
                               !.left_iterator = points[g.left_iterator].down,
                               !.right_iterator = points[g.right_iterator].up]
                    /\ UNCHANGED <<pc, outcome>>
          ELSE /\ pc' = "emit"
               /\ UNCHANGED <<g, outcome>>
  /\ UNCHANGED <<image_data, options, cfg, points, i, rows, columns,
                 sorted_by_interior, rectangles, maximum_confidence,
                 survivors, reads_outside, buffer_misses, zero_divisors>>
  /\ UNCHANGED <<all_magnitudes, before, calls, previous, pixel_read, scan, clip>>

\* area * (se_corner.y - nw_corner.y)
ConfidenceDivisor(area, nw, se) == area * (se.y - nw.y)

\* The confidence of lines 561-562, from the sum of the three loops.
RectangleConfidence(sum, area, nw, se) ==
  FracOver(FracPlus(sum, nw.nw_corner + se.se_corner),
           ConfidenceDivisor(area, nw, se))

\* The confidence field of the pushed rectangle (lines 568-571).
PushedConfidence(p, confidence) ==
  Frac(p.ray_summaries[1].magnitude + p.ray_summaries[3].magnitude
       + p.ray_summaries[5].magnitude + p.ray_summaries[7].magnitude, 1)

\* Lines 561-574: finish the confidence, update the maximum, push the
\* candidate, next seed.
Emit ==
  /\ pc = "emit"
  /\ LET nw == points[g.nw_corner]
         se == points[g.se_corner]
         p == points[g.p]
         confidence == RectangleConfidence(g.confidence, g.area, nw, se)
     IN /\ g' = [g EXCEPT !.confidence = confidence]
        /\ zero_divisors' =
             IF ConfidenceDivisor(g.area, nw, se) = 0
             THEN zero_divisors \cup {"confidence / area"}
             ELSE zero_divisors
        /\ maximum_confidence' = MathMax(confidence, maximum_confidence)
        /\ rectangles' = Append(rectangles,
             [x |-> p.x, y |-> p.y, w |-> cfg.horizontal_spacing,
              h |-> cfg.vertical_spacing,
              confidence |-> PushedConfidence(p, confidence),
              seed |-> g.p, computed |-> confidence])
  /\ i' = i + 1
  /\ pc' = "seed"
  /\ UNCHANGED <<image_data, options, cfg, points, rows, columns,
                 sorted_by_interior, survivors, outcome, reads_outside,
                 buffer_misses>>
  /\ UNCHANGED <<all_magnitudes, before, calls, previous, pixel_read, scan, clip>>

\* A filter that compares with the default limit, whatever the option.
SurvivesDefaultLimit(confidence, minimum_confidence) ==
  FracGE(confidence, Frac(SCALE \div 10, 1))
\* A filter that drops a rectangle only when its confidence compares below
\* the limit.
SurvivesUnlessBelow(confidence, minimum_confidence) ==
  IsNaN(confidence) \/ FracGE(confidence, Frac(minimum_confidence, 1))
\* rectangles[i].confidence >= minimum_confidence
Survives(confidence, minimum_confidence) ==
  FracGE(confidence, Frac(minimum_confidence, 1))

\* A list that takes each new rectangle at its front.
UnshiftSurvivor(list, r) == <<r>> \o list
\* survivors.push(rectangles[i])
PushSurvivor(list, r) == Append(list, r)

\* Lines 578-585: one iteration of the scaling loop; after the last one,
\* return survivors.
Normalize ==
  /\ pc = "normalize"
  /\ IF i <= Len(rectangles)
     THEN LET scaled == FracDiv(rectangles[i].confidence, maximum_confidence)
          IN /\ rectangles' = [rectangles EXCEPT ![i].confidence = scaled]
             /\ zero_divisors' =
                  IF maximum_confidence.n = 0 /\ maximum_confidence.d > 0
                  THEN zero_divisors \cup {"confidence / maximum_confidence"}
                  ELSE zero_divisors
             /\ survivors' =
                  IF Survives(scaled, cfg.minimum_confidence)
                  THEN PushSurvivor(survivors, [rectangles[i] EXCEPT
                                                  !.confidence = scaled])
                  ELSE survivors
             /\ i' = i + 1
             /\ UNCHANGED <<pc, outcome>>
     ELSE /\ pc' = "done"
          /\ outcome' = "returned"
          /\ UNCHANGED <<rectangles, survivors, zero_divisors, i>>
  /\ UNCHANGED <<image_data, options, cfg, points, rows, columns,
                 sorted_by_interior, g, maximum_confidence, reads_outside,
                 buffer_misses>>
  /\ UNCHANGED <<all_magnitudes, before, calls, previous, pixel_read, scan, clip>>

\* The caller calls recognize_text again with the same image_data and
\* options.  Whatever a local variable held is out of reach of the new
\* call: each one is assigned by its var statement before it is read.
NextCall ==
  /\ pc = "done"
  /\ calls + 1 < MaxCalls
  /\ previous' = [outcome |-> outcome, survivors |-> survivors]
  /\ calls' = calls + 1
  /\ pc' = "entry"
  /\ outcome' = "running"
  /\ UNCHANGED <<image_data, options, cfg, points, i, rows, columns,
                 sorted_by_interior, g, rectangles, maximum_confidence,
                 survivors, reads_outside, buffer_misses, zero_divisors,
                 all_magnitudes, before, pixel_read, scan, clip>>

Next ==
  \/ Entry
  \/ SampleRays
  \/ Classify
  \/ Link
  \/ Sort
  \/ Seed
  \/ TopWalk
  \/ BottomWalk
  \/ LeftWalk
  \/ RightWalk
  \/ HLoop
  \/ VLoop
  \/ TopBottomLoop
  \/ LeftRightLoop
  \/ Emit
  \/ Normalize
  \/ NextCall

Spec == Init /\ [][Next]_vars

\* ------------------------------------------------------- pixel accessors
\* The three variants of the detector fetch the pixel at (x, y) through a
\* byte offset into image_data.data.
\* src/recognize-text.md, line 21: pixel_offset(x, y) = y * w + x << 2
DocumentedPixelOffset(w, h, x, y) == 4 * (y * w + x)
\* src/recognize-text.js, line 19: return y * h + x << 2
CompiledPixelOffset(w, h, x, y) == 4 * (y * h + x)
\* src/recognize-text.js, line 222: var offset = y * w + x << 2
RayPixelOffset(w, h, x, y) == PixelOffset(w, x, y)

\* One fetch of the pixel at (x, y) of the image by a variant's accessor.
Fetch(variant, offset, x, y) ==
  /\ x \in 0..(image_data.width - 1)
  /\ y \in 0..(image_data.height - 1)
  /\ pixel_read' = [variant |-> variant, x |-> x, y |-> y, offset |-> offset]
  /\ UNCHANGED <<image_data, options, pc, cfg, points, i, rows, columns,
                 sorted_by_interior, g, rectangles, maximum_confidence,
                 survivors, outcome, reads_outside, buffer_misses,
                 zero_divisors, all_magnitudes, before, calls, previous,
                 scan, clip>>

\* pixel_vector(x, y) of the documented sliding-window variant.
DocumentedPixelVector ==
  \E x \in 0..(MaxW - 1), y \in 0..(MaxH - 1) :
    Fetch("documented",
          DocumentedPixelOffset(image_data.width, image_data.height, x, y),
          x, y)

\* pixel_vector(x, y) of the compiled sliding-window variant.
CompiledPixelVector ==
  \E x \in 0..(MaxW - 1), y \in 0..(MaxH - 1) :
    Fetch("compiled",
          CompiledPixelOffset(image_data.width, image_data.height, x, y),
          x, y)

\* luminosity(x, y) of the ray-based variant.
RayLuminosity ==
  \E x \in 0..(MaxW - 1), y \in 0..(MaxH - 1) :
    Fetch("ray",
          RayPixelOffset(image_data.width, image_data.height, x, y), x, y)

\* The accessors applied to the pixels of the well-formed images.
PixelInit == Init /\ WellFormed(image_data) /\ options = NoOptions
             /\ image_data.pattern = "colour"

PixelNext ==
  \/ DocumentedPixelVector
  \/ CompiledPixelVector
  \/ RayLuminosity

PixelSpec == PixelInit /\ [][PixelNext]_vars

\* ----------------------------------- the documented sliding-window detector
\* src/recognize-text.md, lines 14-107.
RecognizeVars ==
  <<image_data, options, pc, cfg, points, i, rows, columns,
    sorted_by_interior, g, rectangles, maximum_confidence, survivors,
    outcome, reads_outside, buffer_misses, zero_divisors, all_magnitudes,
    before, calls, previous, pixel_read>>

\* n[i, u]: the integers from i up to, not including, u (the compiled
\* loop is for (...; i < u; i += 1)); empty when u <= i.
N(lower, upper) ==
  IF upper <= lower THEN <<>>
  ELSE [k \in 1..(upper - lower) |-> lower + k - 1]

\* n[x, x + w] *~![n[y, y + h] *y[...]]: the pairs of the two ranges, the
\* first range outermost.
Pairs(xs, ys) ==
  [k \in 1..(Len(xs) * Len(ys)) |->
     <<xs[((k - 1) \div Len(ys)) + 1], ys[((k - 1) % Len(ys)) + 1]>>]

\* pixels_in(x, y, w, h): the coordinates handed to pixel_vector.
PixelsIn(x, y, w, h) == Pairs(N(x, x + w), N(y, y + h))

\* The three windows of the result point (x, y), in the order of the
\* arguments of likelihood.
WindowPixels(x, y, radius) ==
  PixelsIn(x - 4, y, 3, radius) \o PixelsIn(x - 2, y, 3, radius)
    \o PixelsIn(x, y, 3, radius)

\* n[4, w] *~![n[0, h - settings.radius] *y[...]]: the result points.
ResultPoints(w, h, radius) == Pairs(N(4, w), N(0, h - radius))

\* settings.radius: the default 4, or the radius option.
Radii == {2, 4}

StartScan(radius) == [NoScan EXCEPT !.stage = "result", !.radius = radius,
                                    !.point = 1]

\* One call of pixel_vector by a window of the current result point.
ReadWindowPixel ==
  /\ scan.stage = "result"
  /\ LET rp == ResultPoints(image_data.width, image_data.height, scan.radius)
     IN /\ scan.point <= Len(rp)
        /\ LET reads == WindowPixels(rp[scan.point][1], rp[scan.point][2],
                                     scan.radius)
           IN /\ scan.read < Len(reads)
              /\ scan' =
                   [scan EXCEPT
                      !.read = scan.read + 1,
                      !.x = reads[scan.read + 1][1],
                      !.y = reads[scan.read + 1][2],
                      !.offset = DocumentedPixelOffset(
                                   image_data.width, image_data.height,
                                   reads[scan.read + 1][1],
                                   reads[scan.read + 1][2])]
  /\ UNCHANGED <<RecognizeVars, clip>>

\* The three windows are read: the point's record is pushed and the loop
\* goes to the next point, or ends after the last one.
PushResult ==
  /\ scan.stage = "result"
  /\ LET rp == ResultPoints(image_data.width, image_data.height, scan.radius)
     IN IF scan.point <= Len(rp)
        THEN /\ scan.read = Len(WindowPixels(rp[scan.point][1],
                                             rp[scan.point][2], scan.radius))
             /\ scan' = [scan EXCEPT !.point = scan.point + 1, !.read = 0]
        ELSE scan' = [scan EXCEPT !.stage = "done"]
  /\ UNCHANGED <<RecognizeVars, clip>>

WindowInit ==
  /\ InitCall
  /\ WellFormed(image_data)
  /\ image_data.pattern = "colour"
  /\ options = NoOptions
  /\ scan \in {StartScan(radius) : radius \in Radii}
  /\ clip = NoClip

WindowNext == ReadWindowPixel \/ PushResult

WindowSpec == WindowInit /\ [][WindowNext]_vars

\* ------------------------------------------------------- clip_confidences
\* 2 * (z + z^3/3 + z^5/5) with z = (v - 1)/(v + 1): the logarithm of a
\* v in [1, 2], counting 1/SCALE.
LnSeries(v) ==
  LET z == ((v - SCALE) * SCALE) \div (v + SCALE)
      z3 == (((z * z) \div SCALE) * z) \div SCALE
      z5 == (((z3 * z) \div SCALE) * z) \div SCALE
  IN 2 * (z + z3 \div 3 + z5 \div 5)

RECURSIVE Ln(_)
\* Math.log(v) for v >= 1, counting 1/SCALE: log(v) = log(2) + log(v/2).
Ln(v) ==
  IF v >= 2 * SCALE THEN LnSeries(2 * SCALE) + Ln(v \div 2)
  ELSE LnSeries(v)

\* Math.log of a confidence that is at least 1; log(Infinity) is Infinity
\* and log(NaN) is NaN.
FracLog(a) == IF a.d = 0 THEN a ELSE Frac(Ln(a.n \div a.d), 1)

RECURSIVE FoldMax(_, _)
\* xs /[0][x0 /-Math.max/ x.confidence]: the left fold of Math.max.
FoldMax(x0, xs) ==
  IF xs = <<>> THEN x0 ELSE FoldMax(MathMax(x0, Head(xs)), Tail(xs))

\* The number of result records in a call of clip_confidences.
MaxResults == 3

\* The likelihoods of the result records: products of two non-negative
\* fractions, counting 1/SCALE.
Likelihoods ==
  {0, SCALE \div 2, SCALE, (3 * SCALE) \div 2, 3 * SCALE, 8 * SCALE}

ResultLists ==
  UNION { [1..n -> {Frac(v, 1) : v \in Likelihoods}] : n \in 0..MaxResults }

\* The first pass: x.confidence = Math.max(x.confidence, 1) /!Math.log;
\* after the last record, maximum is folded from the new values.
ClipLog ==
  /\ clip.stage = "log"
  /\ IF clip.k <= Len(clip.xs)
     THEN clip' = [clip EXCEPT
                     !.xs[clip.k] =
                        FracLog(MathMax(clip.xs[clip.k], Frac(SCALE, 1))),
                     !.k = clip.k + 1]
     ELSE clip' = [clip EXCEPT !.stage = "divide", !.k = 1,
                               !.maximum = FoldMax(Frac(0, 1), clip.xs)]
  /\ UNCHANGED <<RecognizeVars, scan>>

\* The second pass: x.confidence /= maximum.
ClipDivide ==
  /\ clip.stage = "divide"
  /\ IF clip.k <= Len(clip.xs)
     THEN clip' = [clip EXCEPT
                     !.xs[clip.k] = FracDiv(clip.xs[clip.k], clip.maximum),
                     !.k = clip.k + 1]
     ELSE clip' = [clip EXCEPT !.stage = "done"]
  /\ UNCHANGED <<RecognizeVars, scan>>

ClipInit ==
  /\ InitCall
  /\ WellFormed(image_data)
  /\ image_data.pattern = "colour"
  /\ image_data.width = MaxW
  /\ image_data.height = MaxH
  /\ options = NoOptions
  /\ scan = NoScan
  /\ clip \in {[NoClip EXCEPT !.stage = "log", !.xs = xs, !.k = 1] :
                 xs \in ResultLists}

ClipNext == ClipLog \/ ClipDivide

ClipSpec == ClipInit /\ [][ClipNext]_vars

\* ================================================================ claims
\* The minimum_confidence in effect: the option, or 0.1 when it is absent.
MinimumConfidenceInEffect ==
  IF options.minimum_confidence = 0 THEN SCALE \div 10
  ELSE options.minimum_confidence

\* The point has been through the classification loop.
IsClassified(p) == p.classification_distance # 0

Scores(p) ==
  <<p.interior, p.left_edge, p.right_edge, p.top_edge, p.bottom_edge,
    p.nw_corner, p.se_corner>>

\* C1: every rectangle returned for a well-formed buffer has a confidence
\* c with 0 <= c <= 1.
C1_ConfidenceInUnitInterval ==
  (pc = "done" /\ WellFormed(image_data)) =>
    \A k \in 1..Len(survivors) :
      LET c == survivors[k].confidence
      IN c.d > 0 /\ 0 <= c.n /\ c.n <= c.d * SCALE

\* C2: no returned rectangle has a normalized confidence below the
\* minimum_confidence in effect for the call.
C2_NoSurvivorBelowMinimum ==
  \A k \in 1..Len(survivors) :
    LET c == survivors[k].confidence
    IN IF c.d = 0 THEN c.n > 0
       ELSE c.n >= MinimumConfidenceInEffect * c.d

\* C2, its case: a call returned some candidates and dropped others.
C2_Witness ==
  /\ pc = "done"
  /\ outcome = "returned"
  /\ Len(survivors) > 0
  /\ Len(survivors) < Len(rectangles)

\* C3: every sample of every ray is read at a coordinate inside the image.
C3_RaysStayInImage == reads_outside = {}

\* C4: after classification each of the seven scores of every sample point
\* is non-negative.
C4_ScoresNonNegative ==
  \A k \in 1..Len(points) :
    IsClassified(points[k]) =>
      \A n \in 1..7 : Scores(points[k])[n] >= 0

\* C5: after classification the sum of squares of a point's seven scores is
\* at most 1, no score exceeds 1 in absolute value, and a point whose raw
\* norm is below 1 keeps its raw scores.
C5_ScoresInUnitBall ==
  \A k \in 1..Len(points) :
    IsClassified(points[k]) =>
      LET sc == Scores(points[k])
      IN /\ SumSeq([n \in 1..7 |-> sc[n] * sc[n]]) <= SCALE * SCALE
         /\ \A n \in 1..7 : Abs(sc[n]) <= SCALE
         /\ (SumSeq([n \in 1..7 |-> points[k].raw[n] * points[k].raw[n]])
               < SCALE * SCALE => sc = points[k].raw)

\* C5, its case: one classified point has a raw norm above 1 and another a
\* raw norm below 1 with a score that is not 0.
C5_Witness ==
  /\ \E k \in 1..Len(points) :
       /\ IsClassified(points[k])
       /\ SumSeq([n \in 1..7 |-> points[k].raw[n] * points[k].raw[n]])
            > SCALE * SCALE
       /\ points[k].se_corner # 0
  /\ \E k \in 1..Len(points) :
       /\ IsClassified(points[k])
       /\ SumSeq([n \in 1..7 |-> points[k].raw[n] * points[k].raw[n]])
            < SCALE * SCALE
       /\ points[k].interior > 0

\* C6: the confidence of each pushed candidate is the area-normalized sum
\* computed for its seed, and the maximum is the maximum of the pushed
\* values.
C6_PushedConfidenceIsComputed ==
  pc = "seed" =>
    /\ \A k \in 1..Len(rectangles) :
         LET r == rectangles[k]
         IN /\ (r.confidence.d = 0) = (r.computed.d = 0)
            /\ r.confidence.n * r.computed.d = r.computed.n * r.confidence.d
    /\ \A k \in 1..Len(rectangles) :
         FracGE(maximum_confidence, rectangles[k].confidence)

\* max(ray_steps*ray_interval*ray_aspect, ray_steps*ray_interval)
Margin(c) ==
  Max2(c.ray_steps * c.ray_interval * c.ray_aspect,
       c.ray_steps * c.ray_interval)

C8_MalformedInputRaises ==
  ~WellFormed(image_data) =>
    /\ buffer_misses = 0
    /\ (pc = "done" => outcome = "InputError")

\* C9: no division executed during a call has a zero divisor.
C9_NoZeroDivisor == zero_divisors = {}

\* A bound above every point count, lattice coordinate and loop index.
RankBase == MaxW * MaxH + 1

\* The x (or y) coordinate of a point reference; 0 for an absent one.
CoordX(ref) == IF ref = Undefined THEN 0 ELSE points[ref].x
CoordY(ref) == IF ref = Undefined THEN 0 ELSE points[ref].y

\* The statements left in the growth of one rectangle: the later the
\* statement the smaller the first term; within a walk or a loop, the
\* lattice distance the walker can still cover.
GrowthRank ==
  LET weight == 4 * RankBase * RankBase
  IN CASE pc = "seed"    -> 9 * weight
       [] pc = "top"     -> 8 * weight + CoordY(g.top_edge)
       [] pc = "bottom"  -> 7 * weight + RankBase - CoordY(g.bottom_edge)
       [] pc = "left"    -> 6 * weight + CoordX(g.left_edge)
       [] pc = "right"   -> 5 * weight + RankBase - CoordX(g.right_edge)
       [] pc = "h_loop"  -> 4 * weight
                            + (RankBase - CoordX(g.h_iterator)) * 2 * RankBase
                            + 2 * RankBase - 1
       [] pc = "v_loop"  -> 4 * weight
                            + (RankBase - CoordX(g.h_iterator)) * 2 * RankBase
                            + RankBase - CoordY(g.v_iterator)
       [] pc = "tb_loop" -> 3 * weight + RankBase - CoordX(g.top_iterator)
       [] pc = "lr_loop" -> 2 * weight + RankBase - CoordY(g.left_iterator)
       [] pc = "emit"    -> weight
       [] OTHER          -> 0

\* The statements left in the call, as a natural number: the phase first,
\* then the iterations left in the phase's loop.
Rank ==
  LET weight == 4 * RankBase * RankBase
      phase == 10 * weight * (RankBase + 1)
      left(n) == n + 1 - i
  IN CASE pc = "entry"     -> 7 * phase
       [] pc = "rays"      -> 6 * phase + left(Len(points))
       [] pc = "classify"  -> 5 * phase + left(Len(points))
       [] pc = "link"      -> 4 * phase + left(Len(points))
       [] pc = "sort"      -> 3 * phase
       [] pc = "normalize" -> phase + left(Len(rectangles))
       [] pc = "done"      -> 0
       [] OTHER            -> 2 * phase
                              + left(Len(sorted_by_interior)) * 10 * weight
                              + GrowthRank

\* C10: a call on a well-formed buffer completes: every walk and every
\* summation loop ends, no absent link is dereferenced, and the call
\* returns a list.  Stated with a variant: every step of the call lowers
\* Rank, a natural number, so no walk or loop runs for ever; no step raises
\* a TypeError; and the call ends by returning.  (Every action is an
\* IF-THEN-ELSE under its pc label, so a call that has not ended always
\* has a next step.)
C10_CallCompletes ==
  /\ [](WellFormed(image_data) =>
          /\ Rank >= 0
          /\ outcome # "TypeError"
          /\ (pc = "done" => outcome = "returned"))
  /\ [][(WellFormed(image_data) /\ pc # "done") => Rank' < Rank]_vars

\* Every pixel of the image has the same colour.
UniformImage(img) == img.pattern \in {"uniform", "solid"}

\* C10, its case: a call that grew a rectangle upward or downward and
\* sideways from its seed has returned.
C10_Witness ==
  /\ pc = "done"
  /\ outcome = "returned"
  /\ WellFormed(image_data)
  /\ Len(rectangles) > 0
  /\ (g.top_distance > 0 \/ g.bottom_distance > 0)
  /\ g.left_edge # g.p
  /\ g.right_edge # g.p

\* C11: a call made after another call on the same buffer and options
\* gives its caller what the earlier call gave: the same outcome and the
\* same list (same rectangles, same order, same confidences).
C11_SameInputSameOutput ==
  (pc = "done" /\ calls > 0) =>
    /\ outcome = previous.outcome
    /\ survivors = previous.survivors

\* C11, its case: a second call has returned a list that is not empty,
\* having begun with the global scope the first call left behind.
C11_Witness ==
  /\ pc = "done"
  /\ calls > 0
  /\ outcome = "returned"
  /\ Len(survivors) > 0
  /\ before.all_magnitudes.defined
  /\ Len(before.all_magnitudes.entries) > 0

\* C12: a call on an image whose pixels all have the same colour returns
\* an empty list.
C12_UniformImageReturnsEmpty ==
  (pc = "done" /\ UniformImage(image_data)) =>
    /\ outcome = "returned"
    /\ survivors = <<>>

\* C12, its case: a call on a well-formed image of one colour has grown
\* candidate rectangles (minimum_interior is negative) and has returned.
C12_Witness ==
  /\ pc = "done"
  /\ outcome = "returned"
  /\ UniformImage(image_data)
  /\ WellFormed(image_data)
  /\ Len(rectangles) > 0
  /\ cfg.minimum_confidence < 0

\* C13: when a call has ended, the global scope, the caller's ImageData and
\* the caller's options object are what they were when the call began.
C13_NoStateOutlivesCall ==
  pc = "done" => Visible(all_magnitudes, image_data, options) = before

\* The rectangle's normalized confidence is at least the minimum_confidence
\* in effect.
Qualifies(r) == FracGE(r.confidence, Frac(MinimumConfidenceInEffect, 1))

\* C14: the returned list is the subsequence of the generated candidates
\* whose normalized confidence is >= minimum_confidence, in the order of
\* generation, which is by descending interior score of the seed.
C14_SurvivorsAreFilteredInOrder ==
  (pc = "done" /\ outcome = "returned") =>
    /\ survivors = SelectSeq(rectangles, Qualifies)
    /\ \A k \in 1..Len(rectangles) : \A l \in k..Len(rectangles) :
         points[rectangles[k].seed].interior
           >= points[rectangles[l].seed].interior

\* C14, its case: a call has returned two or more rectangles and dropped a
\* candidate generated before the last one it returned.
C14_Witness ==
  /\ pc = "done"
  /\ outcome = "returned"
  /\ Len(survivors) >= 2
  /\ \E k \in 1..Len(rectangles) :
       /\ ~Qualifies(rectangles[k])
       /\ \E l \in (k + 1)..Len(rectangles) : Qualifies(rectangles[l])

\* The stages of a call whose pc is at or behind the linking pass.
LinkingOrLater ==
  {"link", "sort", "seed", "top", "bottom", "left", "right", "h_loop",
   "v_loop", "tb_loop", "lr_loop", "emit", "normalize", "done"}

\* The stages of the rectangle growth loop.
Growing ==
  {"top", "bottom", "left", "right", "h_loop", "v_loop", "tb_loop",
   "lr_loop", "emit"}

HasSomeLink(p) ==
  p.up # Undefined \/ p.down # Undefined \/ p.left # Undefined
  \/ p.right # Undefined

\* The point has been through the linking loop: it is in the bucket of its
\* row and of its column.
IsLinked(k) ==
  /\ points[k].y \in DOMAIN rows
  /\ \E n \in 1..Len(rows[points[k].y]) : rows[points[k].y][n] = k
  /\ points[k].x \in DOMAIN columns
  /\ \E n \in 1..Len(columns[points[k].x]) : columns[points[k].x][n] = k

\* The step leaves every point's ray data, ray summaries and scores as
\* they were.
PointsKeepTheirData ==
  /\ Len(points') = Len(points)
  /\ \A k \in 1..Len(points) :
       /\ points'[k].rays = points[k].rays
       /\ points'[k].ray_summaries = points[k].ray_summaries
       /\ Scores(points'[k]) = Scores(points[k])

\* C15: the stages of a call are strictly ordered.  A point has a link only
\* when every point has its classification; a growth walk runs only when
\* every point has been linked; and from the linking pass on no step writes
\* a point's ray data or scores again.
C15_StagesAreOrdered ==
  /\ [](pc # "entry" =>
          /\ ((\E k \in 1..Len(points) : HasSomeLink(points[k]))
                => \A k \in 1..Len(points) : IsClassified(points[k]))
          /\ (pc \in Growing => \A k \in 1..Len(points) : IsLinked(k)))
  /\ [][(pc \in LinkingOrLater) => PointsKeepTheirData]_vars

\* C15, its case: a growth walk is running over a lattice of linked and
\* classified points.
C15_Witness ==
  /\ pc = "left"
  /\ Len(points) >= 9
  /\ \A k \in 1..Len(points) : IsClassified(points[k])
  /\ \E k \in 1..Len(points) : HasAllLinks(points[k])

\* C16: every variant's accessor reads the pixel at (x, y) from the four
\* bytes that start at byte offset 4 * (y * width + x).
C16_PixelIsReadAtItsOffset ==
  pixel_read.variant # "none" =>
    pixel_read.offset = 4 * (pixel_read.y * image_data.width + pixel_read.x)

\* Every ray of every point has just been sampled and analysed.
RaysAnalysed == pc = "classify" /\ i = 1

\* The samples of ray j (1..8) of point k, as the code read them.
SamplesOf(k, j) ==
  RaySamples(image_data, cfg, points[k].x, points[k].y, j)

\* Sample d (0-based) of the ray lies on or above the ray's mean.
AtOrAboveMean(ray, d) == Deviation(ray, RayTotal(ray), d + 1) >= 0

\* The samples the segment covers: position - length .. position - 1.
Covered(seg) == (seg.position - seg.length)..(seg.position - 1)

\* The segment is a maximal run of samples on one side of the mean: its
\* samples lie on one side, the sample that closes it on the other, and so
\* does the sample before it, if there is one.
IsMaximalRun(ray, seg) ==
  LET first == seg.position - seg.length
  IN /\ \A d \in Covered(seg) :
          AtOrAboveMean(ray, d) = AtOrAboveMean(ray, first)
     /\ AtOrAboveMean(ray, seg.position) # AtOrAboveMean(ray, first)
     /\ (first > 0 =>
           AtOrAboveMean(ray, first - 1) # AtOrAboveMean(ray, first))

\* C17: every recorded segment is a maximal run of consecutive samples
\* whose deviations from the ray's mean have the same sign.
C17_SegmentsAreSameSideRuns ==
  RaysAnalysed =>
    \A k \in 1..Len(points) : \A j \in 1..8 :
      \A n \in 1..Len(points[k].rays[j]) :
        IsMaximalRun(SamplesOf(k, j), points[k].rays[j][n])

RECURSIVE SumOfDeviations(_, _)
SumOfDeviations(ray, ds) ==
  IF ds = {} THEN 0
  ELSE LET d == CHOOSE e \in ds : TRUE
       IN Deviation(ray, RayTotal(ray), d + 1)
            + SumOfDeviations(ray, ds \ {d})

\* One recorded segment of a ray: above the noise floor, closed at a
\* sample of the ray, and carrying the deviations of the samples before it.
SegmentInBounds(ray, seg) ==
  /\ AboveNoiseFloor(seg.value, Len(ray))
  /\ 1 <= seg.length
  /\ seg.length <= seg.position
  /\ seg.position <= Len(ray) - 1
  /\ seg.value = Abs(SumOfDeviations(ray, Covered(seg)))

\* C18: every recorded segment has value > 0.025 and
\* 1 <= length <= position <= ray_steps - 1, its value being that of the
\* samples position - length .. position - 1; the segments of one ray are
\* pairwise disjoint, and the run open at the end of the ray (the one that
\* holds the last sample) is not recorded.
C18_SegmentsAreBoundedAndDisjoint ==
  RaysAnalysed =>
    \A k \in 1..Len(points) : \A j \in 1..8 :
      LET ray == SamplesOf(k, j)
          segs == points[k].rays[j]
      IN /\ \A n \in 1..Len(segs) : SegmentInBounds(ray, segs[n])
         /\ \A n1, n2 \in 1..Len(segs) :
              n1 # n2 => Covered(segs[n1]) \cap Covered(segs[n2]) = {}
         /\ \A n \in 1..Len(segs) : (Len(ray) - 1) \notin Covered(segs[n])

\* A ray with two recorded segments, and a ray whose open run at the end
\* was above the noise floor and left out.
C18_Witness ==
  /\ RaysAnalysed
  /\ \E k \in 1..Len(points) : \E j \in 1..8 :
       Len(points[k].rays[j]) = 2
  /\ \E k \in 1..Len(points) : \E j \in 1..8 :
       LET ray == SamplesOf(k, j)
           segs == points[k].rays[j]
           last == IF segs = <<>> THEN 0 ELSE segs[Len(segs)].position
       IN /\ RayTotal(ray) # NaN
          /\ AboveNoiseFloor(
               Abs(SumOfDeviations(ray, last..(Len(ray) - 1))), Len(ray))

\* The linking loop of this call has ended.
AfterLinking == pc \in (LinkingOrLater \ {"link"})

\* The point lies in the first (last) column or row of the grid.
InFirstColumn(p) == \A k \in 1..Len(points) : points[k].x >= p.x
InLastColumn(p) == \A k \in 1..Len(points) : points[k].x <= p.x
InFirstRow(p) == \A k \in 1..Len(points) : points[k].y >= p.y
InLastRow(p) == \A k \in 1..Len(points) : points[k].y <= p.y

\* The four links of point k lead to its grid neighbours, which link back.
LinksToNeighbours(k) ==
  LET p == points[k]
  IN /\ p.left # Undefined =>
          /\ p.left \in 1..Len(points)
          /\ points[p.left].y = p.y
          /\ points[p.left].x = p.x - cfg.horizontal_spacing
          /\ points[p.left].right = k
     /\ p.right # Undefined =>
          /\ p.right \in 1..Len(points)
          /\ points[p.right].y = p.y
          /\ points[p.right].x = p.x + cfg.horizontal_spacing
          /\ points[p.right].left = k
     /\ p.up # Undefined =>
          /\ p.up \in 1..Len(points)
          /\ points[p.up].x = p.x
          /\ points[p.up].y = p.y - cfg.vertical_spacing
          /\ points[p.up].down = k
     /\ p.down # Undefined =>
          /\ p.down \in 1..Len(points)
          /\ points[p.down].x = p.x
          /\ points[p.down].y = p.y + cfg.vertical_spacing
          /\ points[p.down].up = k

\* A link is absent exactly at the border of the grid.
LinksAbsentAtBorder(k) ==
  LET p == points[k]
  IN /\ (p.left = Undefined) = InFirstColumn(p)
     /\ (p.right = Undefined) = InLastColumn(p)
     /\ (p.up = Undefined) = InFirstRow(p)
     /\ (p.down = Undefined) = InLastRow(p)

\* C19: after linking, p.left is the point one horizontal_spacing to the
\* left in the same row and p.left.right is p, p.up is the point one
\* vertical_spacing above in the same column and p.up.down is p (and the
\* same for right and down); a link is absent exactly at the first or last
\* row or column; every link strictly changes one coordinate, so following
\* one direction never returns to a point.
C19_LinksFormAMesh ==
  AfterLinking =>
    \A k \in 1..Len(points) :
      LinksToNeighbours(k) /\ LinksAbsentAtBorder(k)

\* A linked grid of at least three columns and three rows: it has a point
\* with four links and points two links away from each other.
C19_Witness ==
  /\ pc = "sort"
  /\ \E k \in 1..Len(points) :
       /\ HasAllLinks(points[k])
       /\ points[points[k].left].left = Undefined
       /\ points[points[k].right].right = Undefined
       /\ points[points[k].up].up = Undefined
       /\ points[points[k].down].down # Undefined

\* The scan over sorted_by_interior has ended.
ScanEnded == pc \in {"normalize", "done"}

\* The point meets both conditions of the scan.
IsSeedPoint(k) ==
  /\ points[k].up # Undefined /\ points[k].down # Undefined
  /\ points[k].left # Undefined /\ points[k].right # Undefined
  /\ points[k].interior > cfg.minimum_interior

\* The rectangles generated with point k as their seed.
CandidatesOf(k) == {n \in 1..Len(rectangles) : rectangles[n].seed = k}

\* C20: when the scan has ended, a point has a candidate rectangle if and
\* only if it has all four links and its interior is above
\* minimum_interior, and then it has exactly one: the early end of the
\* scan skips no such point, and a point without four links that comes
\* before such a point does not end the scan.
C20_CandidateIffLinkedAndInterior ==
  ScanEnded =>
    \A k \in 1..Len(points) :
      /\ (CandidatesOf(k) # {}) = IsSeedPoint(k)
      /\ Cardinality(CandidatesOf(k)) <= 1

\* A scan that passed a point without four links whose interior is above
\* the minimum and generated a candidate for a later point, and that ended
\* before the end of the list.
C20_Witness ==
  /\ pc = "normalize"
  /\ \E a, b \in 1..Len(sorted_by_interior) :
       /\ a < b
       /\ ~HasAllLinks(points[sorted_by_interior[a]])
       /\ points[sorted_by_interior[a]].interior > cfg.minimum_interior
       /\ CandidatesOf(sorted_by_interior[b]) # {}
  /\ \E k \in 1..Len(points) :
       points[k].interior <= cfg.minimum_interior

\* (total + moment) / (distance + 1) > total / distance, for distance > 0:
\* the average of the moments with the new one included is above the
\* average without it.
AverageRises(total, moment, distance) ==
  (total + moment) * distance > total * (distance + 1)

\* The upward walk takes a step from a point that is not its first.
LaterStepUp ==
  /\ pc = "top"
  /\ g.top_distance > 0
  /\ g'.top_distance = g.top_distance + 1

\* The downward walk takes a step from a point that is not its first.
LaterStepDown ==
  /\ pc = "bottom"
  /\ g.bottom_distance > 0
  /\ g'.bottom_distance = g.bottom_distance + 1

StepsRaiseTheAverage ==
  /\ LaterStepUp =>
       AverageRises(g.top_total, g'.top_moment, g.top_distance)
  /\ LaterStepDown =>
       AverageRises(g.bottom_total, g'.bottom_moment, g.bottom_distance)

\* C21: the upward and the downward walk take a step, when distance > 0,
\* only if (total + moment) / (distance + 1) > total / distance, that is
\* only if the moment of the current point raises the running average.
C21_WalkStepsRaiseAverage == [][StepsRaiseTheAverage]_vars

\* Every point has just been classified.
AllClassified == pc = "link" /\ i = 1

\* The rays along the NW/SE axis: directions [1, 1] and [-1, -1] before
\* the scaling by ray_aspect.
NWSEAxis == {j \in 1..8 : BaseDirections[j][1] = BaseDirections[j][2]}

\* The dot product of direction j with (1, 1).
DotWithDiagonal(j) == RayDirections(cfg)[j][1] + RayDirections(cfg)[j][2]

\* d_total and d_bias of a classified point, from its raw scores:
\* nw_corner = d_bias + d_total / 2 and se_corner = d_total - nw_corner.
DTotalOf(p) == p.raw[6] + p.raw[7]
DBiasOf(p) == p.raw[6] - (DTotalOf(p) \div 2)

\* C22: d_bias and d_total of every classified point are made of the two
\* rays of the NW/SE axis only, each weighted by the dot product of its
\* direction with (1, 1); the two rays of the NE/SW axis add nothing,
\* whatever ray_aspect is.
C22_OnlyNWSEAxisContributes ==
  AllClassified =>
    \A k \in 1..Len(points) :
      LET m == [j \in 1..8 |-> points[k].ray_summaries[j].magnitude]
      IN /\ DTotalOf(points[k]) =
              SumOver([j \in 1..8 |-> m[j] * Abs(DotWithDiagonal(j))],
                      NWSEAxis)
         /\ DBiasOf(points[k]) =
              SumOver([j \in 1..8 |-> m[j] * DotWithDiagonal(j)], NWSEAxis)

\* C23: every pixel coordinate read by one of the three windows of a
\* result point of the documented sliding-window detector lies in the
\* image: 0 <= x < width and 0 <= y < height.
C23_WindowReadsStayInImage ==
  (scan.stage = "result" /\ scan.read > 0) =>
    /\ 0 <= scan.x /\ scan.x < image_data.width
    /\ 0 <= scan.y /\ scan.y < image_data.height

\* The confidence is a number between 0 and 1.
InUnitInterval(a) == a.d > 0 /\ a.n >= 0 /\ a.n <= a.d * SCALE

\* C24: after clip_confidences every confidence is a number in [0, 1],
\* also when every likelihood was at most 1.
C24_ClippedConfidencesInUnitInterval ==
  clip.stage = "done" =>
    \A k \in 1..Len(clip.xs) : InUnitInterval(clip.xs[k])

====
